---------------------------- MODULE Spec2Model ----------------------------
(***************************************************************************)
(* Copy-trade engine of bot/copytrade-base.js (the auto-sell version of   *)
(* the file, lines 389-1015): the scan loop of run(), the state file      *)
(* (buildState / persistState), the rate gate (isTradeAllowedByRate) and  *)
(* the buy and sell execution paths.                                      *)
(*                                                                         *)
(* The engine is one sequential process.  Every action below is the code  *)
(* between two suspension points (await) of run(); the process can be     *)
(* killed at any suspension point and while fs.writeFileSync is writing   *)
(* the state file.  RPC, quote and wallet calls answer nondeterministic-  *)
(* ally with the outcomes the code distinguishes.                         *)
(***************************************************************************)
EXTENDS Integers, Sequences, FiniteSets, TLC

(***************************************************************************)
(* Bounds of the model.                                                    *)
(***************************************************************************)
MaxHeight == 3        \* the chain grows up to this height
MaxCrashes == 1       \* kills of the engine process
MaxFaults == 1        \* failing RPC / quote / wallet answers
MaxTicks == 2         \* clock advances, each of TickMs

(***************************************************************************)
(* Program constants and the configuration run() reads from the           *)
(* environment.                                                            *)
(***************************************************************************)
HourMs == 3600000
SeenKeep == 20000
TradesKeep == 2000
COOLDOWN_SECONDS == 1800
MAX_TRADES_PER_HOUR == 2
START_LOOKBACK_BLOCKS == 2
MAX_BLOCK_SCAN_PER_CYCLE == 2
AUTO_SELL_BPS == 5000
MIN_SELL_TOKEN_RAW == 1
BpsDenominator == 10000
TickMs == COOLDOWN_SECONDS * 1000
IGNORE_TOKENS == {"tokI"}

\* null (no cursor yet), and a data word BigInt() cannot decode
NULL == -1
BadData == -1
WATCH == "watch"

(***************************************************************************)
(* normalizeAddr: String(a || '').toLowerCase().  Addresses on the chain  *)
(* come checksummed (mixed case) or lower case.                            *)
(***************************************************************************)
normalizeAddr(a) ==
    CASE a = "Tok1" -> "tok1"
      [] a = "Tok2" -> "tok2"
      [] a = "TokI" -> "tokI"
      [] a = "Watch" -> "watch"
      [] OTHER -> a

(***************************************************************************)
(* The chain.  A block is a sequence of transactions; a transaction has   *)
(* a sender, a hash and a receipt (status, logs); a log has the emitting  *)
(* token, whether topic 0 is the Transfer topic, whether topic 1 (from)   *)
(* and topic 2 (to) are the watched address, and its data word (BadData: *)
(* not decodable by BigInt).  Block n of the chain is BlockAt(n).          *)
(***************************************************************************)
Log(tok, xfer, fromW, toW, data) ==
    [address |-> tok, transfer |-> xfer, fromWatch |-> fromW, toWatch |-> toW,
     data |-> data]

Tx(from, hash, status, logs) ==
    [from |-> from, hash |-> hash, status |-> status, logs |-> logs]

BlockAt(n) ==
    CASE n % 4 = 1 ->
           << Tx("Watch", <<n, 1>>, "success",
                 << Log("Tok1", TRUE, FALSE, TRUE, 5),
                    Log("tok1", TRUE, TRUE, TRUE, 5),
                    Log("tok1", TRUE, FALSE, TRUE, 5) >>) >>
      [] n % 4 = 2 ->
           << Tx("other", <<n, 1>>, "success",
                 << Log("tok2", TRUE, FALSE, TRUE, 4) >>),
              Tx("watch", <<n, 2>>, "reverted",
                 << Log("tok2", TRUE, FALSE, TRUE, 4) >>),
              Tx("watch", <<n, 3>>, "success",
                 << Log("tok2", TRUE, FALSE, TRUE, 4) >>) >>
      [] n % 4 = 3 ->
           << Tx("watch", <<n, 1>>, "success",
                 << Log("tok1", TRUE, TRUE, FALSE, 3),
                    Log("TokI", TRUE, FALSE, TRUE, 1),
                    Log("tok2", FALSE, FALSE, TRUE, 9),
                    Log("TokI", TRUE, TRUE, FALSE, 2) >>) >>
      [] OTHER ->
           << Tx("watch", <<n, 1>>, "success",
                 << Log("tok2", TRUE, FALSE, TRUE, 0),
                    Log("tok2", TRUE, FALSE, TRUE, BadData),
                    Log("Tok2", TRUE, FALSE, TRUE, 7) >>) >>

VARIABLES
    pc,          \* where run() is suspended; "down": the process is dead
    mem,         \* run()'s `state` object: seen, trades, lastScannedBlock
    file,        \* the state file on disk
    height,      \* the chain's current height
    now,         \* Date.now()
    dryRun,      \* DRY_RUN
    autoSell,    \* AUTO_SELL_ENABLED
    latest,      \* run() locals of the cycle ...
    toBlock,
    b,
    txi,         \* index of `tx` in the block's transactions
    lgi,         \* index of `lg` in the receipt's logs
    sellAmt,     \* followerSellAmount
    quote,       \* the sell quote held: payload valid, spender named
    gate,        \* what the loop body decided for the last log it looked at
    crashes, faults, ticks,
    \* history the properties are stated on
    sent,        \* follower transactions submitted, in order
    quoted,      \* dedup keys a quote was requested for
    visited,     \* blocks getBlock was called for in the current cycle
    cycleCursor, \* lastScannedBlock when the current cycle read the height
    cycleDone,   \* the current cycle ran to its end
    failedFetch, \* blocks whose last getBlock failed
    produced,    \* <<dedup key, block>> pushed to seen while processing block
    durableSeen, \* dedup keys some completed write of the file contained
    maxCursor,   \* highest lastScannedBlock a completed write persisted
    lastWritten, \* what the last completed write of the file contained
    dropped,     \* <<dedup key, reason>> of every signal the loop gave up
    answer,      \* what the last get0xQuote call for the current log answered
    balance,     \* followerTokenBalance read for the current log
    approval,    \* how far ensureAllowance has come for the current log
    receipt,     \* the status waitForTransactionReceipt answered for the current log's swap
    failedReceipt, \* transactions whose last getTransactionReceipt failed
    \* the operator console (lib/operator/copytrade.ts)
    bots,        \* bot processes spawned, by pid: alive, DRY_RUN at spawn
    pidFile,     \* bot/copytrade.pid: a pid, or NoPid
    envFile,     \* .env.copytrade as parseEnvFile reads it: key -> value
    lastAction,  \* the control action that completed last
    prevConfig   \* getCopytradeConfig() before that action

vars == << pc, mem, file, height, now, dryRun, autoSell, latest, toBlock, b,
           txi, lgi, sellAmt, quote, gate, crashes, faults, ticks, sent, quoted,
           visited, cycleCursor, cycleDone, failedFetch, produced,
           durableSeen, maxCursor, lastWritten, dropped, answer,
           balance, approval, receipt, failedReceipt,
           bots, pidFile, envFile, lastAction, prevConfig >>

locals == << latest, toBlock, b, txi, lgi, sellAmt, quote, gate >>
config == << dryRun, autoSell >>
console == << bots, pidFile, envFile, lastAction, prevConfig >>
\* what no step of the engine process writes
fixed == << config, console >>
\* locals of the sell path
sellLocals == << balance, approval >>

Max(x, y) == IF x >= y THEN x ELSE y
Min(x, y) == IF x <= y THEN x ELSE y

\* Array.prototype.slice(-n): the last n elements
LastN(s, n) == IF Len(s) <= n THEN s ELSE SubSeq(s, Len(s) - n + 1, Len(s))

Includes(s, x) == \E i \in DOMAIN s : s[i] = x

(***************************************************************************)
(* The state file.  kind "none": no file; "corrupt": a file JSON.parse    *)
(* rejects (a write cut short); "ok": a complete write.  lastRunAt is     *)
(* written and loaded but read by no decision of run(); it is left out.   *)
(***************************************************************************)
EmptyState == [seen |-> << >>, trades |-> << >>, lastScannedBlock |-> NULL]

NoFile == [kind |-> "none", data |-> EmptyState]
CorruptFile == [kind |-> "corrupt", data |-> EmptyState]

\* readJsonSafe: the fallback when the file is missing or does not parse
readJsonSafe(f, fallback) == IF f.kind = "ok" THEN f.data ELSE fallback

buildState(f) == readJsonSafe(f, EmptyState)

\* the object persistState hands to writeJsonSafe
Trimmed(state) ==
    [seen |-> LastN(state.seen, SeenKeep),
     trades |-> LastN(state.trades, TradesKeep),
     lastScannedBlock |-> state.lastScannedBlock]

\* writeJsonSafe, run to completion
writeJsonSafe(value) == [kind |-> "ok", data |-> value]

(***************************************************************************)
(* isTradeAllowedByRate: "rate" (maxTradesPerHour reached), "cooldown" or *)
(* "ok".                                                                   *)
(***************************************************************************)
\* the window test with `>` for `>=`
Recent_Mut(trades, t) == {i \in DOMAIN trades : trades[i].tsMs > t - HourMs}

\* state.trades.filter((t) => t.tsMs >= hourAgo)
Recent(trades, t) == {i \in DOMAIN trades : trades[i].tsMs >= t - HourMs}

\* the gate without the cooldown test
isTradeAllowedByRate_NoCooldown(state, t) ==
    IF Cardinality(Recent(state.trades, t)) >= MAX_TRADES_PER_HOUR THEN "rate"
    ELSE "ok"

isTradeAllowedByRate(state, t) ==
    IF Cardinality(Recent(state.trades, t)) >= MAX_TRADES_PER_HOUR THEN "rate"
    ELSE IF /\ Len(state.trades) > 0
            /\ t - state.trades[Len(state.trades)].tsMs < COOLDOWN_SECONDS * 1000
         THEN "cooldown"
         ELSE "ok"

(***************************************************************************)
(* Side classification of one log (run, lines 729-740): "buy", "sell" or  *)
(* "none".                                                                 *)
(***************************************************************************)
\* the classification without the self-transfer check of line 735
Classify_Mut(lg) ==
    IF ~lg.transfer THEN "none"
    ELSE IF lg.fromWatch THEN "sell"
    ELSE IF lg.toWatch THEN "buy"
    ELSE "none"

Classify(lg) ==
    IF ~lg.transfer THEN "none"
    ELSE IF lg.toWatch /\ lg.fromWatch THEN "none"
    ELSE IF lg.fromWatch THEN "sell"
    ELSE IF lg.toWatch THEN "buy"
    ELSE "none"

CurTx == BlockAt(b)[txi]
CurLog == CurTx.logs[lgi]
DedupKey(tx, lg, side) == << tx.hash, normalizeAddr(lg.address), side >>
CurKey == DedupKey(CurTx, CurLog, Classify(CurLog))

\* a quote as run() reads it: transaction.to and .data present, and an
\* allowance spender (issues.allowance.spender, allowanceTarget) named
Quotes == [valid : BOOLEAN, spender : BOOLEAN]
NoQuote == [valid |-> FALSE, spender |-> FALSE]

\* the suspension points of run()
AwaitPcs == {"sleep", "height", "block", "receipt", "buyQuote", "buySend",
             "buyWait", "sellBalance", "sellQuote", "allowance", "approve",
             "approveWait", "requote", "sellSend", "sellWait"}

Range(s) == {s[i] : i \in DOMAIN s}

budget == << crashes, faults, ticks >>
world == << height, now >>
cycleHist == << visited, cycleCursor, cycleDone >>
fileHist == << durableSeen, lastWritten, maxCursor >>

(***************************************************************************)
(* The operator console's view of the bot (lib/operator/copytrade.ts).    *)
(* The .env.copytrade file is a map from the keys it sets to their        *)
(* values; of the keys of CopytradeConfig the model keeps DRY_RUN and     *)
(* WATCH_ADDRESS.  A pid is the index of the process in `bots`.           *)
(***************************************************************************)
ConfigKeys == {"DRY_RUN", "WATCH_ADDRESS"}
ValuesOf(k) == IF k = "DRY_RUN" THEN {"true", "false"} ELSE {"", "0xw"}

DEFAULTS == [k \in ConfigKeys |-> IF k = "DRY_RUN" THEN "true" ELSE ""]

\* the maps a .env.copytrade file, or the config of a saveConfig request
\* (entries that are undefined filtered out), can hold
Partials ==
    UNION {{f \in [K -> UNION {ValuesOf(k) : k \in ConfigKeys}] :
               \A k \in K : f[k] \in ValuesOf(k)} : K \in SUBSET ConfigKeys}

\* {...a, ...b}
Spread(a, c) ==
    [k \in DOMAIN a \cup DOMAIN c |-> IF k \in DOMAIN c THEN c[k] ELSE a[k]]

getCopytradeConfig(f) == Spread(DEFAULTS, f)

\* the file writeCopytradeConfig(nextPartial) writes
writeCopytradeConfig(f, nextPartial) == Spread(getCopytradeConfig(f), nextPartial)

\* readPid() answers null: no pid file, or one that holds no positive number
NoPid == 0

\* isRunning(pid): process.kill(pid, 0) does not throw
isRunning(pid) == pid # NoPid /\ pid \in DOMAIN bots /\ bots[pid].alive

\* no control action has run, no bot was spawned, no .env.copytrade exists
ConsoleIdle ==
    /\ bots = << >>
    /\ pidFile = NoPid
    /\ envFile = << >>
    /\ lastAction = "none"
    /\ prevConfig = DEFAULTS

Init ==
    /\ pc = "height"
    /\ file = NoFile
    /\ mem = buildState(NoFile)
    /\ height = 1
    /\ now = 0
    /\ dryRun \in BOOLEAN
    /\ autoSell \in BOOLEAN
    /\ latest = 0 /\ toBlock = 0 /\ b = 0 /\ txi = 0 /\ lgi = 0
    /\ sellAmt = 0 /\ quote = NoQuote /\ gate = "none"
    /\ crashes = 0 /\ faults = 0 /\ ticks = 0
    /\ sent = << >>
    /\ quoted = {}
    /\ visited = << >>
    /\ cycleCursor = NULL
    /\ cycleDone = FALSE
    /\ failedFetch = {}
    /\ produced = {}
    /\ durableSeen = {}
    /\ maxCursor = NULL
    /\ lastWritten = EmptyState
    /\ dropped = {}
    /\ answer = "none"
    /\ balance = 0
    /\ approval = "none"
    /\ receipt = "none"
    /\ failedReceipt = {}
    /\ ConsoleIdle

(***************************************************************************)
(* persistState(STATE_FILE, m) followed by the code up to the next        *)
(* suspension point `next`: either the write completes, or the process is *)
(* killed while fs.writeFileSync has truncated the file and not yet       *)
(* written all of it.                                                      *)
(***************************************************************************)
persistState(m, next) ==
    /\ mem' = m
    /\ \/ /\ file' = writeJsonSafe(Trimmed(m))
          /\ durableSeen' = durableSeen \cup Range(Trimmed(m).seen)
          /\ lastWritten' = Trimmed(m)
          /\ maxCursor' = Max(maxCursor, m.lastScannedBlock)
          /\ pc' = next
          /\ UNCHANGED crashes
       \/ /\ crashes < MaxCrashes
          /\ crashes' = crashes + 1
          /\ file' = CorruptFile
          /\ pc' = "down"
          /\ UNCHANGED fileHist

\* sleep(POLL_SECONDS * 1000) is over: the next cycle starts
Sleep ==
    /\ pc = "sleep"
    /\ pc' = "height"
    /\ UNCHANGED << mem, file, world, fixed, locals, budget, sent, quoted,
                    cycleHist, failedFetch, produced, dropped, answer,
                    sellLocals, receipt, failedReceipt, fileHist >>

\* the first block of a cycle (run, lines 685-690)
FromBlock(cursor, l) ==
    IF cursor = NULL THEN Max(0, l - START_LOOKBACK_BLOCKS) ELSE cursor + 1

\* the range end without the `- 1`
ToBlock_Mut(from, l) == Min(l, from + MAX_BLOCK_SCAN_PER_CYCLE)

\* the last block of a cycle (run, line 693)
ToBlock(from, l) == Min(l, from + MAX_BLOCK_SCAN_PER_CYCLE - 1)

(***************************************************************************)
(* publicClient.getBlockNumber() answers r: -1 stands for a thrown RPC    *)
(* error, 0 for a height the code rejects, else the chain's height.       *)
(***************************************************************************)
\* the height check with `latest < 0` for `latest <= 0`
HeightValid_Mut(r) == r >= 0

\* Number.isFinite(latest) && latest > 0 (run, line 683)
HeightValid(r) == r > 0

\* the loop error handled by ending the process
LoopError_Exit == "exited"

\* catch (e) { log('loop error', ...) } (run, lines 1004-1006): the cycle is
\* over, and the loop goes on to the sleep before the next one
LoopError == "sleep"

GetBlockNumber ==
    /\ pc = "height"
    /\ \E r \in {-1, 0, height} :
         /\ latest' = r
         /\ visited' = << >>
         /\ cycleCursor' = mem.lastScannedBlock
         /\ IF ~HeightValid(r)
            THEN /\ faults < MaxFaults
                 /\ faults' = faults + 1
                 /\ pc' = LoopError
                 /\ cycleDone' = TRUE
                 /\ UNCHANGED << toBlock, b >>
            ELSE LET from == FromBlock(mem.lastScannedBlock, r) IN
                 /\ UNCHANGED faults
                 /\ IF from <= r
                    THEN /\ toBlock' = ToBlock(from, r)
                         /\ b' = from
                         /\ pc' = "block"
                         /\ cycleDone' = FALSE
                    ELSE /\ pc' = "sleep"
                         /\ cycleDone' = TRUE
                         /\ UNCHANGED << toBlock, b >>
    /\ UNCHANGED << mem, file, world, fixed, txi, lgi, sellAmt, quote, gate,
                    crashes, ticks, sent, quoted, failedFetch, produced, dropped, answer,
                    sellLocals, receipt, failedReceipt,
                    fileHist >>

\* the for loop's b++ and test (run, line 695), after block b is left
LoopPc(nb) == IF nb <= toBlock THEN "block" ELSE "sleep"

(***************************************************************************)
(* publicClient.getBlock(b): it throws (the catch logs and continues with *)
(* the next b), or answers the block.                                      *)
(***************************************************************************)
GetBlock ==
    /\ pc = "block"
    /\ visited' = Append(visited, b)
    /\ \/ /\ faults < MaxFaults
          /\ faults' = faults + 1
          /\ failedFetch' = failedFetch \cup {b}
          /\ b' = b + 1
          /\ pc' = LoopPc(b + 1)
          /\ cycleDone' = (b + 1 > toBlock)
          /\ UNCHANGED txi
       \/ /\ txi' = 1
          /\ pc' = "tx"
          /\ UNCHANGED << faults, failedFetch, b, cycleDone >>
    /\ UNCHANGED << mem, file, world, fixed, latest, toBlock, lgi, sellAmt,
                    quote, gate, crashes, ticks, sent, quoted, cycleCursor,
                    produced, dropped, answer,
                    sellLocals, receipt, failedReceipt, fileHist >>

(***************************************************************************)
(* The head of `for (const tx of txs)` (run, lines 709-712): transactions *)
(* not sent by the watched address are passed over; after the last one    *)
(* the block is done.                                                      *)
(***************************************************************************)
NextTx ==
    /\ pc = "tx"
    /\ IF txi > Len(BlockAt(b))
       THEN pc' = "blockEnd" /\ UNCHANGED txi
       ELSE IF normalizeAddr(CurTx.from) # WATCH
            THEN txi' = txi + 1 /\ UNCHANGED pc
            ELSE pc' = "receipt" /\ UNCHANGED txi
    /\ UNCHANGED << mem, file, world, fixed, latest, toBlock, b, lgi,
                    sellAmt, quote, gate, budget, sent, quoted, cycleHist,
                    failedFetch, produced, dropped, answer,
                    sellLocals, receipt, failedReceipt, fileHist >>

(***************************************************************************)
(* publicClient.getTransactionReceipt(tx.hash) and the status filter      *)
(* (run, lines 714-722).                                                   *)
(***************************************************************************)
\* the status filter left out
ReceiptOk_Mut(tx) == TRUE

\* receipt && receipt.status === 'success' (run, line 720)
ReceiptOk(tx) == tx.status = "success"

GetTransactionReceipt ==
    /\ pc = "receipt"
    /\ \/ /\ faults < MaxFaults
          /\ faults' = faults + 1
          /\ txi' = txi + 1
          /\ pc' = "tx"
          /\ failedReceipt' = failedReceipt \cup {CurTx.hash}
          /\ UNCHANGED lgi
       \/ /\ UNCHANGED faults
          /\ failedReceipt' = failedReceipt \ {CurTx.hash}
          /\ IF ~ReceiptOk(CurTx)
             THEN txi' = txi + 1 /\ pc' = "tx" /\ UNCHANGED lgi
             ELSE lgi' = 1 /\ pc' = "log" /\ UNCHANGED txi
    /\ UNCHANGED << mem, file, world, fixed, latest, toBlock, b, sellAmt,
                    quote, gate, crashes, ticks, sent, quoted, cycleHist,
                    failedFetch, produced, dropped, answer,
                    sellLocals, receipt, fileHist >>

\* a record of state.trades
Trade(side, lg, tx, amt, ftx) ==
    [tsMs |-> now, side |-> side, dryRun |-> dryRun, token |-> lg.address,
     watchedHash |-> tx.hash, signalAmount |-> lg.data,
     sellTokenAmount |-> amt, followerTx |-> ftx]

\* a follower transaction handed to the wallet
Sent(kind) == [key |-> CurKey, kind |-> kind, tsMs |-> now]

(***************************************************************************)
(* What the body of `for (const lg of rlogs)` decides for one log before  *)
(* its first suspension point (run, lines 723-768).  It leaves the log    *)
(* before the dedup push ("none": no buy or sell signal, "autosell": a    *)
(* sell with auto-sell off, "seen": the key is in state.seen), or after   *)
(* it ("ignored", "amount", "rate", "cooldown"), or takes the "buy" or    *)
(* the "sell" path.  lg.transactionHash is the hash of the transaction    *)
(* the receipt belongs to.                                                 *)
(***************************************************************************)
Gate(lg, side, state, t) ==
    IF side = "none" THEN "none"
    ELSE IF side = "sell" /\ ~autoSell THEN "autosell"
    ELSE IF Includes(state.seen, DedupKey(CurTx, lg, side)) THEN "seen"
    ELSE IF normalizeAddr(lg.address) \in IGNORE_TOKENS THEN "ignored"
    ELSE IF lg.data = BadData \/ lg.data <= 0 THEN "amount"
    ELSE IF isTradeAllowedByRate(state, t) # "ok"
         THEN isTradeAllowedByRate(state, t)
    ELSE side

BeforePush == {"none", "autosell", "seen"}
\* the policy denials of a signal
Denials == {"autosell", "ignored", "amount", "rate", "cooldown"}
Armed == {"buy", "sell"}

NextLog ==
    /\ pc = "log"
    /\ IF lgi > Len(CurTx.logs)
       THEN /\ txi' = txi + 1
            /\ pc' = "tx"
            /\ UNCHANGED << lgi, mem, produced, gate, dropped >>
       ELSE LET g == Gate(CurLog, Classify(CurLog), mem, now) IN
            /\ gate' = g
            /\ UNCHANGED txi
            /\ dropped' = IF g \in Denials
                           THEN dropped \cup {<< CurKey, g >>}
                           ELSE dropped
            /\ IF g \in BeforePush
               THEN UNCHANGED << mem, produced >>
               ELSE /\ mem' = [mem EXCEPT !.seen = Append(@, CurKey)]
                    /\ produced' = produced \cup {<< CurKey, b >>}
            /\ IF g \in Armed
               THEN /\ pc' = IF g = "buy" THEN "buyQuote" ELSE "sellBalance"
                    /\ UNCHANGED lgi
               ELSE lgi' = lgi + 1 /\ UNCHANGED pc
    /\ answer' = "none" /\ balance' = 0 /\ approval' = "none"
    /\ receipt' = "none"
    /\ UNCHANGED << file, world, fixed, latest, toBlock, b, sellAmt, quote,
                    budget, sent, quoted, cycleHist, failedFetch, fileHist,
                    failedReceipt >>

\* `continue`: on to the next log of the receipt
Continue ==
    /\ lgi' = lgi + 1
    /\ pc' = "log"
    /\ sellAmt' = 0 /\ quote' = NoQuote
    /\ UNCHANGED << mem, file, fileHist, crashes >>

\* the signal is given up for `reason`, and the loop continues
Drop(reason) ==
    /\ dropped' = dropped \cup {<< CurKey, reason >>}
    /\ Continue

\* state.trades.push(t); persistState(STATE_FILE, state); continue
Record(t) ==
    /\ lgi' = lgi + 1
    /\ sellAmt' = 0 /\ quote' = NoQuote
    /\ UNCHANGED dropped
    /\ persistState([mem EXCEPT !.trades = Append(@, t)], "log")

\* the step goes on to the suspension point `next` of the same log
Goto(next) ==
    /\ pc' = next
    /\ UNCHANGED << lgi, mem, file, fileHist, crashes, dropped >>

\* a call throws: its catch logs, and the loop continues
Throws ==
    /\ faults < MaxFaults
    /\ faults' = faults + 1
    /\ Drop("error")

(***************************************************************************)
(* Buy path (run, lines 770-858).                                          *)
(***************************************************************************)
\* what a get0xQuote call answered: it threw, or a quote with or without a
\* usable transaction payload
Answer(q) == IF q.valid THEN "valid" ELSE "invalid"

\* the buy quote handled with the dry-run record left out
BuyQuoted_NoRecord(q) ==
    IF ~q.valid THEN Drop("payload")
    ELSE IF dryRun THEN Continue /\ UNCHANGED dropped
    ELSE Goto("buySend") /\ UNCHANGED << sellAmt, quote >>

\* the buy quote handled with the DRY_RUN test left out
BuyQuoted_Live(q) ==
    IF ~q.valid THEN Drop("payload")
    ELSE Goto("buySend") /\ UNCHANGED << sellAmt, quote >>

\* the buy quote is in: payload check, then the dry-run record or the way
\* to sendTransaction (run, lines 794-824)
BuyQuoted(q) ==
    IF ~q.valid THEN Drop("payload")
    ELSE IF dryRun THEN Record(Trade("buy", CurLog, CurTx, 0, 0))
    ELSE Goto("buySend") /\ UNCHANGED << sellAmt, quote >>

BuyQuote ==
    /\ pc = "buyQuote"
    /\ quoted' = quoted \cup {CurKey}
    /\ \/ Throws /\ answer' = "error"
       \/ \E q \in Quotes :
            /\ UNCHANGED faults
            /\ answer' = Answer(q)
            /\ BuyQuoted(q)
    /\ UNCHANGED << world, fixed, gate, latest, toBlock, b, txi, ticks, sent,
                    cycleHist, failedFetch, failedReceipt, produced >>
    /\ UNCHANGED << sellLocals, receipt >>

BuySend ==
    /\ pc = "buySend"
    /\ \/ Throws /\ UNCHANGED sent
       \/ /\ sent' = Append(sent, Sent("swap"))
          /\ Goto("buyWait")
          /\ UNCHANGED << faults, sellAmt, quote >>
    /\ UNCHANGED << world, fixed, gate, latest, toBlock, b, txi, ticks, quoted,
                    cycleHist, failedFetch, failedReceipt, produced, answer >>
    /\ UNCHANGED << sellLocals, receipt >>

BuyWait ==
    /\ pc = "buyWait"
    /\ \/ Throws /\ UNCHANGED receipt
       \/ \E status \in {"success", "reverted"} :
            /\ receipt' = status
            /\ Record(Trade("buy", CurLog, CurTx, 0, Len(sent)))
            /\ UNCHANGED faults
    /\ UNCHANGED << world, fixed, gate, latest, toBlock, b, txi, ticks, sent,
                    quoted, cycleHist, failedFetch, failedReceipt, produced, answer >>
    /\ UNCHANGED sellLocals

(***************************************************************************)
(* Sell path (run, lines 860-996).                                         *)
(***************************************************************************)
\* followerSellAmount computed without the basis points
FollowerSellAmount_Whole(bal) == bal

\* followerSellAmount (run, line 879)
FollowerSellAmount(bal) == (bal * AUTO_SELL_BPS) \div BpsDenominator

\* the follower's token balances balanceOf may answer
Balances == {0, 1, 10}

SellBalance ==
    /\ pc = "sellBalance"
    /\ \/ Throws /\ UNCHANGED balance
       \/ \E bal \in Balances :
            /\ UNCHANGED faults
            /\ balance' = bal
            /\ IF bal <= 0 THEN Drop("balance")
               ELSE IF FollowerSellAmount(bal) < MIN_SELL_TOKEN_RAW
               THEN Drop("minsell")
               ELSE /\ sellAmt' = FollowerSellAmount(bal)
                    /\ Goto("sellQuote")
                    /\ UNCHANGED quote
    /\ UNCHANGED << world, fixed, gate, latest, toBlock, b, txi, ticks, sent,
                    quoted, cycleHist, failedFetch, failedReceipt, produced, answer >>
    /\ UNCHANGED << approval, receipt >>

\* the payload check and what follows it (run, lines 957-965)
CheckPayload(q) ==
    IF ~q.valid THEN Drop("payload")
    ELSE Goto("sellSend") /\ quote' = q /\ UNCHANGED sellAmt

SellQuote ==
    /\ pc = "sellQuote"
    /\ quoted' = quoted \cup {CurKey}
    /\ \/ Throws /\ answer' = "error"
       \/ \E q \in Quotes :
            /\ UNCHANGED faults
            /\ answer' = Answer(q)
            /\ IF dryRun
               THEN Record(Trade("sell", CurLog, CurTx, sellAmt, 0))
               ELSE IF q.spender
                    THEN Goto("allowance") /\ quote' = q /\ UNCHANGED sellAmt
                    ELSE CheckPayload(q)
    /\ UNCHANGED << world, fixed, gate, latest, toBlock, b, txi, ticks, sent,
                    cycleHist, failedFetch, failedReceipt, produced >>
    /\ UNCHANGED << sellLocals, receipt >>

(***************************************************************************)
(* ensureAllowance: the allowance read throws, or is enough (no approval, *)
(* the quote held is used), or is short (an approval is sent).            *)
(***************************************************************************)
EnsureAllowanceRead ==
    /\ pc = "allowance"
    /\ \/ Throws /\ UNCHANGED approval
       \/ CheckPayload(quote) /\ UNCHANGED << faults, approval >>
       \/ /\ Goto("approve")
          /\ approval' = "short"
          /\ UNCHANGED << faults, sellAmt, quote >>
    /\ UNCHANGED << world, fixed, gate, latest, toBlock, b, txi, ticks, sent,
                    quoted, cycleHist, failedFetch, failedReceipt, produced, answer >>
    /\ UNCHANGED << balance, receipt >>

EnsureAllowanceApprove ==
    /\ pc = "approve"
    /\ \/ Throws /\ UNCHANGED << sent, approval >>
       \/ /\ sent' = Append(sent, Sent("approve"))
          /\ approval' = "sent"
          /\ Goto("approveWait")
          /\ UNCHANGED << faults, sellAmt, quote >>
    /\ UNCHANGED << world, fixed, gate, latest, toBlock, b, txi, ticks, quoted,
                    cycleHist, failedFetch, failedReceipt, produced, answer >>
    /\ UNCHANGED << balance, receipt >>

\* the approval's receipt handled with the status test left out
Approved_AnyStatus(status) ==
    Goto("requote") /\ UNCHANGED << sellAmt, quote >>

\* the approval's receipt is in (ensureAllowance, lines 599-603): a status
\* other than success throws, and the sell's catch gives the signal up
Approved(status) ==
    IF status # "success" THEN Drop("approve")
    ELSE Goto("requote") /\ UNCHANGED << sellAmt, quote >>

\* waitForTransactionReceipt of the approval: it throws or answers a status
EnsureAllowanceWait ==
    /\ pc = "approveWait"
    /\ \/ Throws /\ UNCHANGED approval
       \/ \E status \in {"success", "reverted"} :
            /\ UNCHANGED faults
            /\ approval' = status
            /\ Approved(status)
    /\ UNCHANGED << world, fixed, gate, latest, toBlock, b, txi, ticks, sent,
                    quoted, cycleHist, failedFetch, failedReceipt, produced, answer >>
    /\ UNCHANGED << balance, receipt >>

\* the quote is requested again after the approval (run, lines 943-954)
SellRequote ==
    /\ pc = "requote"
    /\ quoted' = quoted \cup {CurKey}
    /\ \/ Throws /\ answer' = "error"
       \/ \E q \in Quotes :
            CheckPayload(q) /\ answer' = Answer(q) /\ UNCHANGED faults
    /\ UNCHANGED << world, fixed, gate, latest, toBlock, b, txi, ticks, sent,
                    cycleHist, failedFetch, failedReceipt, produced >>
    /\ UNCHANGED << sellLocals, receipt >>

SellSend ==
    /\ pc = "sellSend"
    /\ \/ Throws /\ UNCHANGED sent
       \/ /\ sent' = Append(sent, Sent("swap"))
          /\ Goto("sellWait")
          /\ UNCHANGED << faults, sellAmt, quote >>
    /\ UNCHANGED << world, fixed, gate, latest, toBlock, b, txi, ticks, quoted,
                    cycleHist, failedFetch, failedReceipt, produced, answer >>
    /\ UNCHANGED << sellLocals, receipt >>

SellWait ==
    /\ pc = "sellWait"
    /\ \/ Throws /\ UNCHANGED receipt
       \/ \E status \in {"success", "reverted"} :
            /\ receipt' = status
            /\ Record(Trade("sell", CurLog, CurTx, sellAmt, Len(sent)))
            /\ UNCHANGED faults
    /\ UNCHANGED << world, fixed, gate, latest, toBlock, b, txi, ticks, sent,
                    quoted, cycleHist, failedFetch, failedReceipt, produced, answer >>
    /\ UNCHANGED sellLocals

(***************************************************************************)
(* The end of the block body (run, lines 1000-1001): the cursor is set to *)
(* b and the state is written; then b++.                                   *)
(***************************************************************************)
AdvanceCursor ==
    /\ pc = "blockEnd"
    /\ persistState([mem EXCEPT !.lastScannedBlock = b], LoopPc(b + 1))
    /\ failedFetch' = failedFetch \ {b}
    /\ b' = b + 1
    /\ cycleDone' = (b + 1 > toBlock)
    /\ txi' = 0 /\ lgi' = 0 /\ gate' = "none"
    /\ UNCHANGED << world, fixed, latest, toBlock, sellAmt, quote, faults,
                    ticks, sent, quoted, visited, cycleCursor, produced, dropped, answer,
                    sellLocals, receipt, failedReceipt >>

(***************************************************************************)
(* The process is killed at a suspension point, and started again: run()  *)
(* loads the state file.                                                   *)
(***************************************************************************)
Crash ==
    /\ pc \in AwaitPcs
    /\ crashes < MaxCrashes
    /\ crashes' = crashes + 1
    /\ pc' = "down"
    /\ UNCHANGED << mem, file, world, fixed, locals, faults, ticks, sent,
                    quoted, cycleHist, failedFetch, produced, dropped, answer,
                    sellLocals, receipt, failedReceipt, fileHist >>

Restart ==
    /\ pc = "down"
    /\ pc' = "height"
    /\ mem' = buildState(file)
    /\ latest' = 0 /\ toBlock' = 0 /\ b' = 0 /\ txi' = 0 /\ lgi' = 0
    /\ sellAmt' = 0 /\ quote' = NoQuote /\ gate' = "none"
    /\ answer' = "none" /\ balance' = 0 /\ approval' = "none"
    /\ receipt' = "none"
    /\ visited' = << >> /\ cycleCursor' = NULL /\ cycleDone' = FALSE
    /\ UNCHANGED << file, world, fixed, budget, sent, quoted, failedFetch,
                    produced, dropped, fileHist,
                    failedReceipt >>

(***************************************************************************)
(* Time passes, in steps of TickMs: while run() sleeps between two cycles *)
(* and while it waits for the receipt of a swap it has sent.              *)
(***************************************************************************)
ClockPcs == {"sleep", "buyWait", "sellWait"}

Tick ==
    /\ pc \in ClockPcs
    /\ ticks < MaxTicks
    /\ ticks' = ticks + 1
    /\ now' = now + TickMs
    /\ UNCHANGED << pc, mem, file, height, fixed, locals, crashes, faults,
                    sent, quoted, cycleHist, failedFetch, produced, dropped, answer,
                    sellLocals, receipt, failedReceipt, fileHist >>

\* The chain grows.  run() reads the height in getBlockNumber only.
Mine ==
    /\ pc = "height"
    /\ height < MaxHeight
    /\ height' = height + 1
    /\ UNCHANGED << pc, mem, file, now, fixed, locals, budget, sent, quoted,
                    cycleHist, failedFetch, produced, dropped, answer,
                    sellLocals, receipt, failedReceipt, fileHist >>

Next ==
    \/ Sleep \/ GetBlockNumber \/ GetBlock \/ NextTx \/ GetTransactionReceipt
    \/ NextLog \/ BuyQuote \/ BuySend \/ BuyWait
    \/ SellBalance \/ SellQuote \/ EnsureAllowanceRead
    \/ EnsureAllowanceApprove \/ EnsureAllowanceWait \/ SellRequote
    \/ SellSend \/ SellWait \/ AdvanceCursor
    \/ Crash \/ Restart \/ Tick \/ Mine

Spec == Init /\ [][Next]_vars

(***************************************************************************)
(* The engine under fair scheduling.  Every step of run() but the first   *)
(* continues an await (an RPC call, a quote request, a transaction) or    *)
(* the sleep timer: the event loop runs it once the promise has settled.  *)
(* How often calls fail and the chain grows is bounded, so reads succeed  *)
(* in the end.                                                             *)
(***************************************************************************)
EngineStep ==
    \/ Sleep \/ GetBlockNumber \/ GetBlock \/ NextTx \/ GetTransactionReceipt
    \/ NextLog \/ BuyQuote \/ BuySend \/ BuyWait
    \/ SellBalance \/ SellQuote \/ EnsureAllowanceRead
    \/ EnsureAllowanceApprove \/ EnsureAllowanceWait \/ SellRequote
    \/ SellSend \/ SellWait \/ AdvanceCursor

\* the engine is not killed, and the clock stands still
InitLive ==
    /\ pc = "height"
    /\ file = NoFile
    /\ mem = buildState(NoFile)
    /\ height = 1
    /\ now = 0
    /\ dryRun \in BOOLEAN
    /\ autoSell \in BOOLEAN
    /\ latest = 0 /\ toBlock = 0 /\ b = 0 /\ txi = 0 /\ lgi = 0
    /\ sellAmt = 0 /\ quote = NoQuote /\ gate = "none"
    /\ crashes = MaxCrashes /\ faults = 0 /\ ticks = MaxTicks
    /\ sent = << >>
    /\ quoted = {}
    /\ visited = << >>
    /\ cycleCursor = NULL
    /\ cycleDone = FALSE
    /\ failedFetch = {}
    /\ produced = {}
    /\ durableSeen = {}
    /\ maxCursor = NULL
    /\ lastWritten = EmptyState
    /\ dropped = {}
    /\ answer = "none"
    /\ balance = 0
    /\ approval = "none"
    /\ receipt = "none"
    /\ failedReceipt = {}
    /\ ConsoleIdle

NextLive == EngineStep \/ Mine

SpecLive == InitLive /\ [][NextLive]_vars /\ WF_vars(EngineStep)

(***************************************************************************)
(* The rate gate on its own: isTradeAllowedByRate applied to histories    *)
(* and clock readings around the edges of the hour window and of the      *)
(* cooldown, at a resolution of 1 ms.  A history is in time order, as     *)
(* run() appends records with tsMs = Date.now().                          *)
(***************************************************************************)
RateStamps == {0, 1, HourMs - COOLDOWN_SECONDS * 1000,
               HourMs - COOLDOWN_SECONDS * 1000 + 1}
RateClock == {HourMs - 1, HourMs, HourMs + 1, HourMs + 2}
MaxHistory == 3

RateTrade(ts) ==
    [tsMs |-> ts, side |-> "buy", dryRun |-> TRUE, token |-> "tok1",
     watchedHash |-> << 1, 1 >>, signalAmount |-> 5, sellTokenAmount |-> 0,
     followerTx |-> 0]

RateHistories ==
    {h \in UNION {[1..n -> {RateTrade(ts) : ts \in RateStamps}] :
                     n \in 0..MaxHistory} :
        \A i \in 1..(Len(h) - 1) : h[i].tsMs <= h[i + 1].tsMs}

InitRate ==
    /\ pc = "log"
    /\ file = NoFile
    /\ mem \in {[EmptyState EXCEPT !.trades = h] : h \in RateHistories}
    /\ height = 1
    /\ now \in RateClock
    /\ dryRun = TRUE
    /\ autoSell = TRUE
    /\ latest = 0 /\ toBlock = 0 /\ b = 0 /\ txi = 0 /\ lgi = 0
    /\ sellAmt = 0 /\ quote = NoQuote /\ gate = "none"
    /\ crashes = 0 /\ faults = 0 /\ ticks = 0
    /\ sent = << >>
    /\ quoted = {}
    /\ visited = << >>
    /\ cycleCursor = NULL
    /\ cycleDone = FALSE
    /\ failedFetch = {}
    /\ produced = {}
    /\ durableSeen = {}
    /\ maxCursor = NULL
    /\ lastWritten = EmptyState
    /\ dropped = {}
    /\ answer = "none"
    /\ balance = 0
    /\ approval = "none"
    /\ receipt = "none"
    /\ failedReceipt = {}
    /\ ConsoleIdle

\* const gate = isTradeAllowedByRate(state, ...) (run, lines 761-764)
RateCheck ==
    /\ gate = "none"
    /\ gate' = isTradeAllowedByRate(mem, now)
    /\ UNCHANGED << pc, mem, file, world, fixed, latest, toBlock, b, txi,
                    lgi, sellAmt, quote, budget, sent, quoted, cycleHist,
                    failedFetch, produced, dropped, answer,
                    sellLocals, receipt, failedReceipt, fileHist >>

\* an allowed signal is recorded: state.trades.push({tsMs: Date.now(), ...})
RateRecord ==
    /\ gate = "ok"
    /\ Len(mem.trades) < MaxHistory
    /\ mem' = [mem EXCEPT !.trades = Append(@, RateTrade(now))]
    /\ gate' = "none"
    /\ UNCHANGED << pc, file, world, fixed, latest, toBlock, b, txi, lgi,
                    sellAmt, quote, budget, sent, quoted, cycleHist,
                    failedFetch, produced, dropped, answer,
                    sellLocals, receipt, failedReceipt, fileHist >>

\* one millisecond passes
RateTick ==
    /\ gate # "none"
    /\ now + 1 \in RateClock
    /\ now' = now + 1
    /\ gate' = "none"
    /\ UNCHANGED << pc, mem, file, height, fixed, latest, toBlock, b, txi,
                    lgi, sellAmt, quote, budget, sent, quoted, cycleHist,
                    failedFetch, produced, dropped, answer,
                    sellLocals, receipt, failedReceipt, fileHist >>

NextRate == RateCheck \/ RateRecord \/ RateTick

SpecRate == InitRate /\ [][NextRate]_vars

(***************************************************************************)
(* The control route of the console (POST: saveConfig, start, stop,       *)
(* restart, emergencyStop) over lib/operator/copytrade.ts.  A request is  *)
(* handled without a suspension point, so each action is one step.  The   *)
(* engine is not modelled here beyond being a process that is alive or    *)
(* not and that was given DRY_RUN at its spawn.                            *)
(***************************************************************************)
MaxSpawns == 3

engine == << pc, mem, file, world, config, locals, budget, sent, quoted,
             cycleHist, failedFetch, produced, fileHist, dropped, answer,
             sellLocals, receipt, failedReceipt >>

InitConsole ==
    /\ pc = "down"
    /\ file = NoFile
    /\ mem = buildState(NoFile)
    /\ height = 1
    /\ now = 0
    /\ dryRun = TRUE
    /\ autoSell = FALSE
    /\ latest = 0 /\ toBlock = 0 /\ b = 0 /\ txi = 0 /\ lgi = 0
    /\ sellAmt = 0 /\ quote = NoQuote /\ gate = "none"
    /\ crashes = 0 /\ faults = 0 /\ ticks = 0
    /\ sent = << >>
    /\ quoted = {}
    /\ visited = << >>
    /\ cycleCursor = NULL
    /\ cycleDone = FALSE
    /\ failedFetch = {}
    /\ produced = {}
    /\ durableSeen = {}
    /\ maxCursor = NULL
    /\ lastWritten = EmptyState
    /\ dropped = {}
    /\ answer = "none"
    /\ balance = 0
    /\ approval = "none"
    /\ receipt = "none"
    /\ failedReceipt = {}
    /\ bots = << >>
    /\ pidFile = NoPid
    /\ envFile \in Partials
    /\ lastAction = "none"
    /\ prevConfig = getCopytradeConfig(envFile)

\* stopCopytradeBot(): the processes and the pid file it leaves.  No pid in
\* the file, or process.kill throws (no such process): nothing changes; else
\* the process gets SIGTERM and the pid file is unlinked.
stopCopytradeBot(bs, pf) ==
    IF pf = NoPid \/ ~(pf \in DOMAIN bs /\ bs[pf].alive)
    THEN [bots |-> bs, pidFile |-> pf]
    ELSE [bots |-> [bs EXCEPT ![pf].alive = FALSE], pidFile |-> NoPid]

\* startCopytradeBot(): spawn with the config as environment, write the
\* child's pid to the pid file
startCopytradeBot(bs, envf) ==
    [bots |-> Append(bs, [alive |-> TRUE,
                          dryRun |-> getCopytradeConfig(envf)["DRY_RUN"]]),
     pidFile |-> Len(bs) + 1]

\* the bookkeeping of a control action that has run
Done(action) ==
    /\ lastAction' = action
    /\ prevConfig' = getCopytradeConfig(envFile)
    /\ UNCHANGED engine

Start ==
    /\ Len(bots) < MaxSpawns
    /\ LET r == startCopytradeBot(bots, envFile) IN
         bots' = r.bots /\ pidFile' = r.pidFile
    /\ UNCHANGED envFile
    /\ Done("start")

Stop ==
    /\ LET r == stopCopytradeBot(bots, pidFile) IN
         bots' = r.bots /\ pidFile' = r.pidFile
    /\ UNCHANGED envFile
    /\ Done("stop")

\* restartCopytradeBot(): stopCopytradeBot(); return startCopytradeBot()
RestartBot ==
    /\ Len(bots) < MaxSpawns
    /\ LET r == stopCopytradeBot(bots, pidFile)
           t == startCopytradeBot(r.bots, envFile)
       IN  bots' = t.bots /\ pidFile' = t.pidFile
    /\ UNCHANGED envFile
    /\ Done("restart")

SaveConfig ==
    /\ \E nextPartial \in Partials :
         envFile' = writeCopytradeConfig(envFile, nextPartial)
    /\ UNCHANGED << bots, pidFile >>
    /\ Done("saveConfig")

\* stopCopytradeBot(); writeCopytradeConfig({ DRY_RUN: "true" })
EmergencyStop ==
    /\ LET r == stopCopytradeBot(bots, pidFile) IN
         bots' = r.bots /\ pidFile' = r.pidFile
    /\ envFile' = writeCopytradeConfig(envFile, [k \in {"DRY_RUN"} |-> "true"])
    /\ Done("emergencyStop")

\* a bot process ends by itself (run() rejects: process.exit(1)); its pid
\* stays in the pid file
BotExits ==
    /\ \E pid \in DOMAIN bots :
         /\ bots[pid].alive
         /\ bots' = [bots EXCEPT ![pid].alive = FALSE]
    /\ UNCHANGED << pidFile, envFile, lastAction, prevConfig, engine >>

NextConsole ==
    \/ Start \/ Stop \/ RestartBot \/ SaveConfig \/ EmergencyStop \/ BotExits

SpecConsole == InitConsole /\ [][NextConsole]_vars

(***************************************************************************)
(* Properties.                                                             *)
(***************************************************************************)
Swaps(key) == {i \in DOMAIN sent : sent[i].kind = "swap" /\ sent[i].key = key}
Keys == {sent[i].key : i \in DOMAIN sent}

\* C1: for every dedup identity (hash, token, side) the engine submits at
\* most one mirrored swap and holds at most one trade record, over any
\* number of cycles and over a kill and restart of the process.
C1_AtMostOnce ==
    /\ \A key \in Keys : Cardinality(Swaps(key)) <= 1
    /\ \A i, j \in DOMAIN mem.trades :
         (/\ mem.trades[i].watchedHash = mem.trades[j].watchedHash
          /\ normalizeAddr(mem.trades[i].token) = normalizeAddr(mem.trades[j].token)
          /\ mem.trades[i].side = mem.trades[j].side) => i = j

\* C2: when the state file holds cursor h, every dedup identity pushed
\* while a block <= h was being processed is in this or an earlier
\* completed write of the file.
C2_DurableOrdering ==
    file.kind = "ok" =>
        \A p \in produced :
            p[2] <= file.data.lastScannedBlock => p[1] \in durableSeen

\* C3: the state run() loads after a kill is the state of the last completed
\* write of the state file, also when the kill came during a write.
C3_CrashAtomicWrite ==
    [][(pc = "down" /\ pc' = "height") => mem' = lastWritten]_vars

\* C4: after getBlock(x) failed the cursor, in memory and in the file, stays
\* below x until x has been fetched and processed.
C4_CursorNotPastFailedBlock ==
    \A x \in failedFetch :
        /\ mem.lastScannedBlock < x
        /\ file.kind = "ok" => file.data.lastScannedBlock < x

\* C5: when the height read fails (an RPC error, or a height <= 0) the cycle
\* ends there: no block is fetched, no signal processed, memory, state file
\* and follower wallet are untouched, and the engine goes to sleep, from
\* where the next cycle starts.
C5_HeightFailureAbortsCycle ==
    /\ [][(pc = "height" /\ pc' # "height" /\ pc' # "down" /\ latest' <= 0)
             => /\ pc' = "sleep"
                /\ visited' = << >>
                /\ UNCHANGED << mem, file, sent, quoted, produced >>]_vars
    /\ [](pc = "sleep" => ENABLED Sleep)

C5_Witness ==
    /\ pc = "sleep"
    /\ latest <= 0
    /\ visited = << >>
    /\ mem.lastScannedBlock # NULL
    /\ Len(mem.seen) > 0

\* C6: once a cursor value has been persisted, the cursor never takes a lower
\* value, in memory (also after a restart) and in the state file.
C6_CursorMonotonic ==
    /\ (pc # "down" /\ mem.lastScannedBlock # NULL)
          => mem.lastScannedBlock >= maxCursor
    /\ (file.kind = "ok" /\ file.data.lastScannedBlock # NULL)
          => file.data.lastScannedBlock >= maxCursor

\* C7: a cycle that starts with cursor c and reads height L calls getBlock
\* for c+1, c+2, ... in ascending order, each once, never beyond
\* min(L, c + MAX_BLOCK_SCAN_PER_CYCLE) and never for more than
\* MAX_BLOCK_SCAN_PER_CYCLE blocks; a cycle that ran to its end has called it
\* for exactly the blocks c+1 .. min(L, c + MAX_BLOCK_SCAN_PER_CYCLE), which
\* are none when c >= L.
CycleLast == Min(latest, cycleCursor + MAX_BLOCK_SCAN_PER_CYCLE)

C7_ScanRange ==
    (cycleCursor # NULL /\ latest > 0) =>
        /\ \A i \in DOMAIN visited : visited[i] = cycleCursor + i
        /\ Len(visited) <= MAX_BLOCK_SCAN_PER_CYCLE
        /\ \A i \in DOMAIN visited : visited[i] <= CycleLast
        /\ cycleDone => Len(visited) = Max(0, CycleLast - cycleCursor)

C7_Witness ==
    /\ cycleCursor # NULL
    /\ cycleDone
    /\ latest > cycleCursor + MAX_BLOCK_SCAN_PER_CYCLE
    /\ Len(visited) = MAX_BLOCK_SCAN_PER_CYCLE

\* C8: a transaction of the watched address whose receipt status is not
\* 'success' leaves no trace: no dedup identity with its hash in memory or in
\* the file, no quote request, no follower transaction and no trade record.
C8_RevertedYieldsNothing ==
    \A h \in UNION {{BlockAt(n)[i].hash :
                        i \in {j \in DOMAIN BlockAt(n) :
                                  BlockAt(n)[j].status # "success"}} :
                    n \in 0..MaxHeight} :
        /\ \A k \in Range(mem.seen) \cup Range(file.data.seen) \cup quoted
                    \cup {p[1] : p \in produced} \cup Keys : k[1] # h
        /\ \A t \in Range(mem.trades) \cup Range(file.data.trades) :
                t.watchedHash # h

\* the reverted transaction of block 2 has been passed, its receipt fetched
C8_Witness ==
    /\ pc = "tx"
    /\ b = 2
    /\ txi = 3
    /\ faults = 0
    /\ BlockAt(2)[2].status = "reverted"
    /\ normalizeAddr(BlockAt(2)[2].from) = WATCH

\* C9: a Transfer log whose from topic and to topic both are the watched
\* address is passed over: dedup set, trade history, state file, quote
\* requests and follower wallet stay as they are, and the loop goes on to
\* the next log.
C9_SelfTransferYieldsNothing ==
    [][(/\ pc = "log"
        /\ lgi <= Len(CurTx.logs)
        /\ CurLog.transfer /\ CurLog.fromWatch /\ CurLog.toWatch)
          => /\ UNCHANGED << mem, file, sent, quoted, produced >>
             /\ pc' = "log"
             /\ lgi' = lgi + 1]_vars

\* the self-transfer of block 1 has been passed with auto-sell on
C9_Witness ==
    /\ pc = "log"
    /\ b = 1 /\ txi = 1 /\ lgi = 3
    /\ autoSell
    /\ BlockAt(1)[1].logs[2].fromWatch /\ BlockAt(1)[1].logs[2].toWatch
    /\ \A k \in Range(mem.seen) : k[3] # "sell"

\* C10: the rate-window check denies exactly when the number of trade
\* records with tsMs >= now - 3,600,000 is at least MAX_TRADES_PER_HOUR: a
\* record is still counted when now = tsMs + 3,600,000 and no longer one
\* millisecond later, which is when the denial ends if the count thereby
\* drops below the cap.
InHour == {i \in DOMAIN mem.trades : now - mem.trades[i].tsMs <= 3600000}

C10_RateWindow ==
    gate # "none" => (gate = "rate" <=> Cardinality(InHour) >= MAX_TRADES_PER_HOUR)

\* the cap is reached with the oldest counted record exactly one hour old
C10_Witness ==
    /\ gate = "rate"
    /\ Cardinality(InHour) = MAX_TRADES_PER_HOUR
    /\ \E i \in InHour : mem.trades[i].tsMs = now - 3600000

\* the trade records, in memory or in the file, of the dedup identity `key`
TradesOf(key) ==
    {t \in Range(mem.trades) \cup Range(file.data.trades) :
        << t.watchedHash, normalizeAddr(t.token), t.side >> = key}

\* the follower transactions (approvals and swaps) sent for `key`
SentFor(key) == {i \in DOMAIN sent : sent[i].key = key}

\* the loop is at a log it has not yet decided on
AtLog == pc = "log" /\ lgi <= Len(CurTx.logs)

\* C11: a sell signal seen while AUTO_SELL_ENABLED is false causes no balance
\* read, quote, approval or swap and no trade record, and its identity
\* (hash, token, sell) is in the dedup set afterwards.
C11_AutoSellOffMarksSeen ==
    [][(AtLog /\ Classify(CurLog) = "sell" /\ ~autoSell)
          => /\ pc' = "log"
             /\ UNCHANGED << sent, quoted >>
             /\ mem'.trades = mem.trades
             /\ Includes(mem'.seen, CurKey)]_vars

\* the suspension points of the sell path after the balance read
AfterBalancePcs == {"sellQuote", "allowance", "approve", "approveWait",
                    "requote", "sellSend", "sellWait"}

\* C12: a sell signal that passed the gate and found a follower balance of
\* zero causes no quote, approval, swap or trade record and is in the dedup
\* set; and the engine never takes it up again, also not when the balance
\* has become positive.
C12_ZeroBalanceDropped ==
    /\ [][(pc = "sellBalance" /\ dropped' # dropped
              /\ << CurKey, "balance" >> \in dropped')
             => /\ pc' = "log"
                /\ UNCHANGED << sent, quoted >>
                /\ mem'.trades = mem.trades
                /\ Includes(mem'.seen, CurKey)]_vars
    /\ [](\A d \in dropped :
            d[2] = "balance" => ~(pc \in AfterBalancePcs /\ CurKey = d[1]))

\* C13: in dry-run a buy signal that passed the gate and whose quote has a
\* valid payload appends exactly one trade record (side buy, the signal's
\* token, the watched hash, dryRun true, no follower transaction) and sends
\* nothing; the identity is in the dedup set then; and the step that ends the
\* signal's block sets the cursor to that block.
C13_DryRunBuyRecord ==
    /\ [][(pc = "buyQuote" /\ dryRun /\ answer' = "valid")
             => /\ gate = "buy"
                /\ normalizeAddr(CurLog.address) \notin IGNORE_TOKENS
                /\ Len(mem'.trades) = Len(mem.trades) + 1
                /\ SubSeq(mem'.trades, 1, Len(mem.trades)) = mem.trades
                /\ LET t == mem'.trades[Len(mem'.trades)] IN
                     /\ t.side = "buy"
                     /\ t.token = CurLog.address
                     /\ t.watchedHash = CurTx.hash
                     /\ t.dryRun = TRUE
                     /\ t.followerTx = 0
                /\ Includes(mem'.seen, << CurTx.hash, normalizeAddr(CurLog.address), "buy" >>)
                /\ sent' = sent]_vars
    /\ [][pc = "blockEnd"
             => /\ mem'.lastScannedBlock = b
                /\ pc' # "down" => file'.data.lastScannedBlock = b]_vars

\* a dry-run buy of block 1 is recorded, and the cursor has passed the block
C13_Witness ==
    /\ dryRun
    /\ mem.lastScannedBlock >= 1
    /\ \E i \in DOMAIN mem.trades :
         /\ mem.trades[i].side = "buy"
         /\ mem.trades[i].dryRun
         /\ mem.trades[i].watchedHash = << 1, 1 >>
         /\ Includes(mem.seen, << << 1, 1 >>, "tok1", "buy" >>)
    /\ file.kind = "ok"
    /\ file.data = Trimmed(mem)

\* C14: with DRY_RUN true the follower wallet never sends a transaction,
\* neither a swap nor an approval, whatever signals and quotes arrive.
C14_DryRunSendsNothing == dryRun => sent = << >>

\* in dry-run a buy and a sell have been mirrored on paper
C14_Witness ==
    /\ dryRun
    /\ sent = << >>
    /\ \E i, j \in DOMAIN mem.trades :
         mem.trades[i].side = "buy" /\ mem.trades[j].side = "sell"

(***************************************************************************)
(* The per-token report as bot/log-server.js builds it from the state     *)
(* file (buildPayload): the executed trades, and one row for every entry  *)
(* of state.positions, a field the file lacks reading as 0.                *)
(***************************************************************************)
\* tradesDesc.filter((t) => !t.dryRun && !!t.followerTx)
executed(data) ==
    {i \in DOMAIN data.trades :
        ~data.trades[i].dryRun /\ data.trades[i].followerTx # 0}

\* state.positions && typeof state.positions === 'object' ? ... : {}
positions(data) ==
    IF "positions" \in DOMAIN data THEN data.positions ELSE << >>

\* String(row.f || '0')
Field(row, f) == IF f \in DOMAIN row THEN row[f] ELSE 0

tokenReport(data) ==
    [tok \in DOMAIN positions(data) |->
        [f \in {"boughtRaw", "soldRaw", "qtyOpenRaw", "costOpenWei",
                "totalBuyEthWei", "totalSellEthWei", "realizedPnlWei"} |->
            Field(positions(data)[tok], f)]]

\* the executed sell that a write of the state file has just added for tok
SellFillWritten(tok) ==
    /\ file.kind = "ok" /\ file'.kind = "ok"
    /\ Len(file'.data.trades) = Len(file.data.trades) + 1
    /\ Len(file'.data.trades) \in executed(file'.data)
    /\ file'.data.trades[Len(file'.data.trades)].side = "sell"
    /\ normalizeAddr(file'.data.trades[Len(file'.data.trades)].token) = tok

\* C15: the state file holds a position for every token with an executed
\* trade on record, with open quantity = bought - sold >= 0; a position once
\* in the file stays there; and its realized PnL changes only in a write that
\* adds an executed sell of the token.
C15_PositionPerToken ==
    /\ [](file.kind = "ok" =>
            \A i \in executed(file.data) :
                LET tok == normalizeAddr(file.data.trades[i].token)
                    rows == tokenReport(file.data)
                IN  /\ tok \in DOMAIN rows
                    /\ rows[tok].qtyOpenRaw
                          = rows[tok].boughtRaw - rows[tok].soldRaw
                    /\ rows[tok].qtyOpenRaw >= 0)
    /\ [][(file.kind = "ok" /\ file'.kind = "ok") =>
            \A tok \in DOMAIN tokenReport(file.data) :
                /\ tok \in DOMAIN tokenReport(file'.data)
                /\ tokenReport(file'.data)[tok].realizedPnlWei
                      # tokenReport(file.data)[tok].realizedPnlWei
                   => SellFillWritten(tok)]_vars

\* C16: when an executed sell of quantity q of a token follows executed buys
\* of it, the token's position before and after the write that records the
\* sell satisfies, for q <= qtyOpen: realized PnL grows by the proceeds minus
\* q * costOpen / qtyOpen, and open quantity and open cost shrink by q and by
\* that share of the cost.
C16_AverageCostPnl ==
    [][\A tok \in {"tok1", "tok2"} :
          (/\ SellFillWritten(tok)
           /\ \E i \in executed(file.data) :
                /\ file.data.trades[i].side = "buy"
                /\ normalizeAddr(file.data.trades[i].token) = tok)
          => LET q == file'.data.trades[Len(file'.data.trades)].sellTokenAmount
                 before == tokenReport(file.data)
                 after == tokenReport(file'.data)
             IN  /\ tok \in DOMAIN before
                 /\ tok \in DOMAIN after
                 /\ q <= before[tok].qtyOpenRaw =>
                      LET share == (q * before[tok].costOpenWei)
                                      \div before[tok].qtyOpenRaw
                          proceeds == after[tok].totalSellEthWei
                                         - before[tok].totalSellEthWei
                      IN  /\ after[tok].realizedPnlWei
                                - before[tok].realizedPnlWei = proceeds - share
                          /\ after[tok].qtyOpenRaw
                                = before[tok].qtyOpenRaw - q
                          /\ after[tok].costOpenWei
                                = before[tok].costOpenWei - share]_vars

\* C17: when emergencyStop has completed, whatever start, stop, restart and
\* saveConfig actions came before, no bot process the console spawned is
\* alive, and the config has DRY_RUN=true and every other key as before; from
\* then on only saveConfig takes DRY_RUN off true, and a bot is spawned with
\* the DRY_RUN of the config.
C17_EmergencyStop ==
    /\ [](lastAction = "emergencyStop" =>
            /\ \A pid \in DOMAIN bots : ~bots[pid].alive
            /\ getCopytradeConfig(envFile)["DRY_RUN"] = "true"
            /\ \A k \in ConfigKeys \ {"DRY_RUN"} :
                   getCopytradeConfig(envFile)[k] = prevConfig[k])
    /\ [][/\ (/\ getCopytradeConfig(envFile)["DRY_RUN"] = "true"
              /\ getCopytradeConfig(envFile')["DRY_RUN"] # "true")
             => lastAction' = "saveConfig"
          /\ Len(bots') > Len(bots)
             => bots'[Len(bots')].dryRun
                   = getCopytradeConfig(envFile)["DRY_RUN"]]_vars

\* the suspension points at which the engine is executing the current signal
ExecPcs == {"buyQuote", "buySend", "buyWait", "sellBalance"}
              \cup AfterBalancePcs

\* the gate as the claim orders it: dedup, ignore list, auto-sell, rate
\* window, cooldown
ClaimedGate(lg, side, state, t) ==
    IF Includes(state.seen, DedupKey(CurTx, lg, side)) THEN "seen"
    ELSE IF normalizeAddr(lg.address) \in IGNORE_TOKENS THEN "ignored"
    ELSE IF side = "sell" /\ ~autoSell THEN "autosell"
    ELSE IF isTradeAllowedByRate(state, t) # "ok"
         THEN isTradeAllowedByRate(state, t)
    ELSE side

\* C18: a signal denied by the ignore list, the rate cap or the cooldown is in
\* the dedup set after the denial and the engine never executes it later,
\* also not when the window or the cooldown is over; and a signal (of a
\* positive amount) is decided by the first failing check in the order dedup,
\* ignore list, auto-sell, rate window, cooldown.
C18_GateDenialsFinal ==
    /\ [][(AtLog /\ gate' \in {"ignored", "rate", "cooldown"} /\ lgi' # lgi)
             => Includes(mem'.seen, CurKey)]_vars
    /\ [](\A d \in dropped :
            d[2] \in {"ignored", "rate", "cooldown"}
               => ~(pc \in ExecPcs /\ CurKey = d[1]))
    /\ [][(AtLog /\ Classify(CurLog) # "none" /\ CurLog.data > 0)
             => gate' = ClaimedGate(CurLog, Classify(CurLog), mem, now)]_vars

\* the ways execution fails after the gate: a call throws, the approval
\* reverts
Failures == {"error", "approve"}

\* C19: a signal whose execution failed after the gate (quote or balance
\* read error, approval failure, swap submission or confirmation failure)
\* is dropped without a trade record and stays in the dedup set, and the
\* engine never again requests a quote or sends a transaction for it.
C19_FailedSignalDropped ==
    /\ [][(pc \in ExecPcs /\ \E r \in Failures :
                                << CurKey, r >> \in dropped' \ dropped)
             => /\ mem'.trades = mem.trades
                /\ Includes(mem'.seen, CurKey)
                /\ pc' = "log"]_vars
    /\ [](\A d \in dropped :
            d[2] \in Failures
               => /\ TradesOf(d[1]) = {}
                  /\ ~(pc \in ExecPcs /\ CurKey = d[1]))

\* C20: a quote whose transaction payload lacks `to` or `data` leads to no
\* trade record and no follower transaction, on the buy and on the sell path,
\* in dry-run and live; the signal stays in the dedup set.
C20_InvalidPayloadDropped ==
    [][(pc \in {"buyQuote", "sellQuote", "requote"} /\ answer' = "invalid")
          => /\ mem'.trades = mem.trades
             /\ sent' = sent
             /\ Includes(mem'.seen, CurKey)]_vars

\* q is the whole part of bal * AUTO_SELL_BPS / 10000
IsShare(q, bal) ==
    /\ q * BpsDenominator <= bal * AUTO_SELL_BPS
    /\ bal * AUTO_SELL_BPS < (q + 1) * BpsDenominator

C21_DustDropped == \E d \in dropped : d[2] = "minsell"

\* the approvals sent for `key`
Approvals(key) == {i \in SentFor(key) : sent[i].kind = "approve"}

C22_Reverted == approval = "reverted"

\* the amount of the log is not positive or cannot be decoded (run, lines
\* 753-759)
NoAmount(lg) == lg.data = BadData \/ lg.data <= 0

\* C23: a Transfer log whose amount is not positive or cannot be decoded is
\* discarded without adding anything to the dedup set, so that a later log of
\* the same transaction with the same (hash, token, side) and a positive
\* amount is still mirrored.
C23_NoAmountNotMarked ==
    [][(AtLog /\ Classify(CurLog) \in {"buy", "sell"} /\ NoAmount(CurLog)
           /\ pc' = "log" /\ lgi' = lgi + 1)
          => mem'.seen = mem.seen]_vars

\* `new` holds what `old` held, less some of its oldest entries, and those
\* only if `new` is at the cap
Evicts(old, new, cap) ==
    \E d \in 0..Len(old) :
        /\ d > 0 => Len(new) = cap
        /\ Len(new) >= Len(old) - d
        /\ \A k \in 1..(Len(old) - d) : new[k] = old[d + k]

\* C24: the persisted dedup set is append-only with bounded size: a snapshot
\* holds at most the 20000 most recently added identities (and the 2000 most
\* recent trades) in insertion order, and from one snapshot to the next an
\* identity goes only by eviction of the oldest entries at the cap.
C24_DedupSetAppendOnly ==
    /\ [](file.kind = "ok"
            => /\ Len(file.data.seen) <= SeenKeep
               /\ Len(file.data.trades) <= TradesKeep)
    /\ [][(file' # file /\ file'.kind = "ok")
             => /\ file'.data.seen = LastN(mem'.seen, SeenKeep)
                /\ file'.data.trades = LastN(mem'.trades, TradesKeep)
                /\ Evicts(lastWritten.seen, file'.data.seen, SeenKeep)
                /\ Evicts(lastWritten.trades, file'.data.trades,
                          TradesKeep)]_vars

\* the record a step appends to state.trades
Appended == mem'.trades[Len(mem'.trades)]

\* C25: in live mode a trade record is appended only after the swap was
\* submitted and its confirmation receipt obtained; the record carries
\* dryRun = false, the follower transaction hash and the confirmed status
\* (success or reverted).
C25_LiveRecordStatus ==
    /\ [](\A t \in Range(mem.trades) :
            ~t.dryRun => /\ t.followerTx \in DOMAIN sent
                         /\ sent[t.followerTx].kind = "swap")
    /\ [][(~dryRun /\ Len(mem'.trades) = Len(mem.trades) + 1)
             => /\ pc \in {"buyWait", "sellWait"}
                /\ receipt' \in {"success", "reverted"}
                /\ ~Appended.dryRun
                /\ Appended.followerTx = Len(sent)
                /\ sent[Len(sent)].kind = "swap"
                /\ "status" \in DOMAIN Appended
                /\ Appended.status = receipt']_vars

\* the records of `trades` stamped within the 60 minutes from `t` on
WithinHour(trades, t) ==
    {i \in DOMAIN trades : trades[i].tsMs >= t /\ trades[i].tsMs <= t + HourMs}

\* `trades` keeps to the rate limit and the cooldown
RateKept(trades) ==
    /\ \A i \in DOMAIN trades :
          Cardinality(WithinHour(trades, trades[i].tsMs))
             <= MAX_TRADES_PER_HOUR
    /\ \A i \in 1..(Len(trades) - 1) :
          trades[i + 1].tsMs - trades[i].tsMs >= COOLDOWN_SECONDS * 1000

\* C26: in every reachable state the trade history holds at most
\* MAX_TRADES_PER_HOUR records in any 60-minute interval, and consecutive
\* records are at least COOLDOWN_SECONDS apart; in dry-run and in live mode,
\* and for the history reloaded from the state file after a restart.
C26_HistoryRateKept ==
    /\ RateKept(mem.trades)
    /\ RateKept(file.data.trades)

\* the history, reloaded after a restart, holds MAX_TRADES_PER_HOUR records a
\* cooldown apart, and a third signal is denied 60 minutes after the first
C26_Witness ==
    /\ Len(mem.trades) = MAX_TRADES_PER_HOUR
    /\ mem.trades[2].tsMs - mem.trades[1].tsMs = COOLDOWN_SECONDS * 1000
    /\ now = mem.trades[1].tsMs + HourMs
    /\ gate = "rate"
    /\ crashes > 0

\* the swaps submitted within the 60 minutes from `t` on
SwapsWithinHour(t) ==
    {i \in DOMAIN sent : /\ sent[i].kind = "swap"
                         /\ sent[i].tsMs >= t /\ sent[i].tsMs <= t + HourMs}

\* C27: every swap submitted is reflected by a trade record carrying its
\* hash, also when the wait for its confirmation fails; and at most
\* MAX_TRADES_PER_HOUR swaps are submitted in any 60-minute interval.
C27_SwapsAccounted ==
    /\ [][(pc \in {"buyWait", "sellWait"} /\ pc' = "log")
             => \E t \in Range(mem'.trades) :
                   ~t.dryRun /\ t.followerTx = Len(sent)]_vars
    /\ [](\A i \in DOMAIN sent :
            Cardinality(SwapsWithinHour(sent[i].tsMs))
               <= MAX_TRADES_PER_HOUR)

\* C28: the cursor moves past block b only when the receipt of every watched
\* transaction of b was fetched; a failed receipt fetch keeps the cursor from
\* passing b.  (The hash of a transaction of block n is <<n, i>>.)
C28_ReceiptFailureHoldsCursor ==
    \A h \in failedReceipt :
        /\ mem.lastScannedBlock < h[1]
        /\ file.kind = "ok" => file.data.lastScannedBlock < h[1]

\* the bot processes the console spawned that are alive
Alive == {pid \in DOMAIN bots : bots[pid].alive}

\* C29: after any sequence of start, stop, restart and emergencyStop, at most
\* one engine process started by the console is alive, and the PID file names
\* it whenever one is alive.
C29_SingleBot ==
    /\ Cardinality(Alive) <= 1
    /\ Alive # {} => pidFile \in Alive

\* C30: no RPC, quote or transaction error inside a cycle ends the engine
\* loop; and under fair scheduling, the reads succeeding in the end, the
\* cursor eventually reaches every height the chain has reached.
C30_CursorCatchesUp ==
    \A h \in 1..MaxHeight :
        [](height >= h => <>(mem.lastScannedBlock >= h))

\* after a failed call the engine sleeps with the cursor at the chain's height
C30_Witness ==
    /\ faults > 0
    /\ height = MaxHeight
    /\ pc = "sleep"
    /\ mem.lastScannedBlock = height

=============================================================================
